---- MODULE Spec2Model ----
(***************************************************************************)
(* bookbond: the cross-corpus passage relationship engine.                 *)
(*                                                                         *)
(* Modelled from                                                           *)
(*   src/src/services/embeddingService.ts          (Vector Index)          *)
(*   src/src/services/passageComparisonService.ts  (selector, classifier)  *)
(*   src/src/services/autoComparisonService.ts     (automatic sweep)       *)
(*   src/src/store/conceptStore.ts                 (comparison store)      *)
(*   src/src/store/bookStore.ts                    (corpus store)          *)
(*   src/src/app/components/BookComparison.tsx     (interactive handlers)  *)
(*                                                                         *)
(* passageComparisonService.ts holds three pasted revisions of the         *)
(* service; lines 1-900 (the revision with analyzeFullBooks) are the one   *)
(* modelled.                                                               *)
(*                                                                         *)
(* Numbers: a similarity or a threshold is an integer number of            *)
(* hundredths (0.75 is 75).  NaN is a number outside that range.          *)
(*                                                                         *)
(* Scheduling: JavaScript runs one task at a time.  An async function      *)
(* runs without interruption up to an await of real I/O (an oracle call).  *)
(* Each thread of control is cut into steps at those awaits; a step that   *)
(* is a synchronous continuation of the previous one leaves the thread at  *)
(* a "synchronous" position, and no other thread moves until it has left   *)
(* it (Busy).                                                              *)
(***************************************************************************)
EXTENDS Integers, Sequences, FiniteSets, TLC

(***************************************************************************)
(* Bounds of the model                                                     *)
(***************************************************************************)
\* compareWithAllBooks calls per behaviour
MaxSweeps == 1
\* interactive operations (threshold change, compare, compare all) per behaviour
MaxUserOps == 1
\* oracle calls (embedding or classification) that fail per behaviour
MaxFailures == 1

(***************************************************************************)
(* Program constants                                                       *)
(***************************************************************************)
\* passageComparisonService.ts:21
DEFAULT_SIMILARITY_THRESHOLD == 50
\* conceptStore.ts:227, the caller-visible threshold's initial value
StoreDefaultThreshold == 75
\* autoComparisonService.ts:23
autoSimilarityThreshold == 50
\* autoComparisonService.ts:140 and :163
SweepTopK == 2
\* BookComparison.tsx:209
UserTopK == 3
\* passageComparisonService.ts:84, compareWithBook's default topK
DefaultTopK == 5

\* the value of 0/0 in cosineSimilarity (embeddingService.ts:40)
NaN == -999

IsNaN(x) == x = NaN

\* a >= b on numbers: false when either side is NaN
GreaterEq(a, b) == ~IsNaN(a) /\ ~IsNaN(b) /\ a >= b

(***************************************************************************)
(* The corpus store (bookStore.ts).  Three books, in upload order: Z has   *)
(* no passage (an empty file), E has one and N has two.                    *)
(***************************************************************************)
books == <<"Z", "E", "N">>

BookIds == {books[i] : i \in 1..Len(books)}

getPassages(bookId) ==
  CASE bookId = "E" -> <<"e1">>
    [] bookId = "N" -> <<"n1", "n2">>
    [] OTHER -> << >>

PassageIds == UNION {{getPassages(b)[i] : i \in 1..Len(getPassages(b))} : b \in BookIds}

bookIdOf(passageId) ==
  CHOOSE b \in BookIds : \E i \in 1..Len(getPassages(b)) : getPassages(b)[i] = passageId

SeqRange(s) == {s[i] : i \in 1..Len(s)}

(***************************************************************************)
(* The embedding oracle.  A deterministic oracle: one vector per passage   *)
(* text.  All vectors have norm 5, so every cosine is a whole number of    *)
(* hundredths: n1.e1 = 0.80, n2.e1 = 0.60, n1.n2 = 0.                      *)
(***************************************************************************)
embeddingOf(passageId) ==
  CASE passageId = "n1" -> <<5, 0>>
    [] passageId = "n2" -> <<0, 5>>
    [] passageId = "e1" -> <<4, 3>>
    [] OTHER -> <<0, 0>>

RECURSIVE ISqrtFrom(_, _)
ISqrtFrom(n, r) == IF (r + 1) * (r + 1) > n THEN r ELSE ISqrtFrom(n, r + 1)

\* Math.sqrt on the perfect squares the model's vectors produce
ISqrt(n) == ISqrtFrom(n, 0)

RECURSIVE SumUpTo(_, _)
SumUpTo(f, n) == IF n = 0 THEN 0 ELSE f[n] + SumUpTo(f, n - 1)

Dot(vecA, vecB) == SumUpTo([i \in 1..Len(vecA) |-> vecA[i] * vecB[i]], Len(vecA))

\* embeddingService.ts:29-41, in hundredths; 0/0 is NaN
cosineSimilarity(vecA, vecB) ==
  LET dotProduct == Dot(vecA, vecB)
      normA == Dot(vecA, vecA)
      normB == Dot(vecB, vecB)
      denom == ISqrt(normA) * ISqrt(normB)
  IN IF denom = 0 THEN NaN ELSE (100 * dotProduct) \div denom

(***************************************************************************)
(* State                                                                   *)
(***************************************************************************)
VARIABLES
  apiKeysSet,           \* AutoComparisonService.apiKeysSet && openaiApiKey
  passageVectors,       \* EmbeddingService.passageVectors, in insertion order
  indexedBooks,         \* comparison store: indexedBooks
  similarityThreshold,  \* PassageComparisonService.similarityThreshold
  storeThreshold,       \* comparison store: similarityThreshold
  currentComparisons,   \* AutoComparisonService.currentComparisons
  comparisons,          \* comparison store: comparisons
  bookComparisons,      \* comparison store: bookComparisons (its keys)
  pc,                   \* each thread's position
  sweep,                \* compareWithAllBooks' locals
  user,                 \* the interactive handler's locals
  cap,                  \* each thread's compareAllPassages frame
  failures,             \* oracle calls that have failed
  sweeps,               \* compareWithAllBooks calls made
  userOps,              \* interactive operations made
  lastIndex,            \* history: the last indexBook call that reached the oracle
  lastFilter,           \* history: the last threshold filter applied
  lastJobError,         \* history: the sweep's last failed pair and what it had computed
  thresholdBefore,      \* history: similarityThreshold when the sweep was called
  call,                 \* a pure function's call (function-level specifications)
  ret                   \* and its result

procVars == <<apiKeysSet, passageVectors, indexedBooks, similarityThreshold,
              storeThreshold, currentComparisons, comparisons, bookComparisons,
              pc, sweep, user, cap, failures, sweeps, userOps,
              lastIndex, lastFilter, lastJobError, thresholdBefore>>

vars == <<procVars, call, ret>>

(***************************************************************************)
(* Vector Index (embeddingService.ts)                                      *)
(***************************************************************************)
EmptyMap == [x \in {} |-> << >>]

MapPut(m, k, v) == [x \in DOMAIN m \cup {k} |-> IF x = k THEN v ELSE m[x]]

\* Map.set on passageVectors: a known key keeps its place
VectorsSet(pv, rec) ==
  IF \E i \in 1..Len(pv) : pv[i].passageId = rec.passageId
  THEN [i \in 1..Len(pv) |-> IF pv[i].passageId = rec.passageId THEN rec ELSE pv[i]]
  ELSE Append(pv, rec)

vectorRecord(passageId, bookId) ==
  [passageId |-> passageId, bookId |-> bookId, vector |-> embeddingOf(passageId)]

RECURSIVE StoreResults(_, _, _, _)
StoreResults(pv, passages, bookId, ok) ==
  IF passages = << >> THEN pv
  ELSE StoreResults(
         IF Head(passages) \in ok
         THEN VectorsSet(pv, vectorRecord(Head(passages), bookId)) ELSE pv,
         Tail(passages), bookId, ok)

\* embeddingService.ts:94-122: ok is the set of passages whose embedding
\* the oracle produced; a failed one is logged and left out
processPassages(pv, passages, bookId, ok) == StoreResults(pv, passages, bookId, ok)

\* embeddingService.ts:184-187
getBookVectorsIn(pv, bookId) ==
  LET OfBook(r) == r.bookId = bookId IN SelectSeq(pv, OfBook)

getBookVectors(bookId) == getBookVectorsIn(passageVectors, bookId)

HasNaN(s) == \E i \in 1..Len(s) : IsNaN(s[i].similarity)

StableDescending(s, p) ==
  \A i, j \in 1..Len(s) :
    i < j => \/ s[p[i]].similarity > s[p[j]].similarity
             \/ s[p[i]].similarity = s[p[j]].similarity /\ p[i] < p[j]

\* Array.prototype.sort((a, b) => b.similarity - a.similarity): stable and
\* descending; with a NaN among the keys the comparator is inconsistent and
\* the order is implementation-defined (any permutation)
SortOutcomes(s) ==
  {[i \in 1..Len(s) |-> s[p[i]]] :
     p \in {q \in Permutations(1..Len(s)) : HasNaN(s) \/ StableDescending(s, q)}}

Min(a, b) == IF a < b THEN a ELSE b

\* embeddingService.ts:144-156, after the query embedding has arrived
similaritiesOf(queryVector, targetVectors) ==
  [i \in 1..Len(targetVectors) |->
     [passageId |-> targetVectors[i].passageId,
      similarity |-> cosineSimilarity(queryVector, targetVectors[i].vector)]]

topResultsOf(queryVector, targetVectors, topK) ==
  {SubSeq(sorted, 1, Min(topK, Len(sorted))) :
     sorted \in SortOutcomes(similaritiesOf(queryVector, targetVectors))}

\* a selector without the threshold filter, for comparison
thresholdPassagesOff(similarPassages, threshold) == similarPassages

\* passageComparisonService.ts:103 and :189
thresholdPassages(similarPassages, threshold) ==
  LET Keep(p) == GreaterEq(p.similarity, threshold)
  IN SelectSeq(similarPassages, Keep)

(***************************************************************************)
(* Relation Classifier (passageComparisonService.ts)                       *)
(*                                                                         *)
(* An oracle response is [form, items]: form says how the text is laid     *)
(* out, items are the elements of the JSON array it holds.  An item is     *)
(* [isNull, passage_id, relation] (per-passage mode) or [isNull,           *)
(* focus_passage_id, related_passage_id, relation_type] (full-book mode);  *)
(* Undefined stands for a missing field.  The evidence text is carried     *)
(* through unchanged by the code and is left out.                          *)
(***************************************************************************)
RelationTypes == {"supports", "contradicts", "extends", "analogous"}

Undefined == "undefined"

\*  fenced       ```json [ ... ] ```      bare       [ ... ]
\*  prose        text [ ... ] text        object     { ... } without brackets
\*  garbage      not JSON at all, no brackets, no passage_id
\*  fencedProse  ``` text [ ... ] text ```: a fence whose content is not JSON
\*  fragments    { ... } { ... }: item objects, no brackets around them
ResponseForms ==
  {"fenced", "bare", "prose", "object", "garbage", "fencedProse", "fragments"}

\* forms that carry item objects
ItemForms == {"fenced", "bare", "prose", "fencedProse", "fragments"}

\* response.match(/```(?:json)?\s+([\s\S]+?)\s+```/), line 393
markdownMatch(response) == response.form \in {"fenced", "fencedProse"}

\* response.match(/(\[[\s\S]*\])/), line 400
jsonMatch(response) == response.form \in {"fenced", "bare", "prose", "fencedProse"}

\* JSON.parse of the text a strategy extracts yields the array of items
ParsesToArray(response, strategy) ==
  CASE strategy = "fence" -> response.form = "fenced"
    [] strategy = "slice" -> response.form \in {"fenced", "bare", "prose", "fencedProse"}
    [] strategy = "raw" -> response.form = "bare"
    [] OTHER -> FALSE

\* passageComparisonService.ts:390-412 (and 837-859): the value the try
\* block holds at the map, or thrown when JSON.parse or the array test throws
jsonResponseOf(response) ==
  LET strategy == IF markdownMatch(response) THEN "fence"
                  ELSE IF jsonMatch(response) THEN "slice"
                  ELSE "raw"
  IN IF ParsesToArray(response, strategy)
     THEN [thrown |-> FALSE, items |-> response.items]
     ELSE [thrown |-> TRUE, items |-> << >>]

IndexOf(seq, x) ==
  IF \E i \in 1..Len(seq) : seq[i] = x
  THEN CHOOSE i \in 1..Len(seq) : seq[i] = x /\ \A j \in 1..(i - 1) : seq[j] # x
  ELSE 0

\* a mapping without the candidate lookup, for comparison
relationOfItemAnyId(item, focusPassageId, candidatePassages, similarities) ==
  <<[focusPassageId |-> focusPassageId,
     relatedPassageId |-> item.passage_id,
     relationType |-> item.relation,
     similarity |-> 0]>>

\* a mapping that takes the first candidate's similarity, for comparison
relationOfItemFirstSimilarity(item, focusPassageId, candidatePassages, similarities) ==
  IF IndexOf(candidatePassages, item.passage_id) = 0 THEN << >>
  ELSE <<[focusPassageId |-> focusPassageId,
          relatedPassageId |-> item.passage_id,
          relationType |-> item.relation,
          similarity |-> similarities[1]]>>

\* passageComparisonService.ts:415-437, one item; << >> is the null it maps to
relationOfItem(item, focusPassageId, candidatePassages, similarities) ==
  LET passageIndex == IndexOf(candidatePassages, item.passage_id)
  IN IF passageIndex = 0 THEN << >>
     ELSE <<[focusPassageId |-> focusPassageId,
             relatedPassageId |-> item.passage_id,
             relationType |-> item.relation,
             similarity |-> IF passageIndex <= Len(similarities)
                            THEN similarities[passageIndex] ELSE 0]>>

RECURSIVE FlatMap(_, _)
FlatMap(f, n) == IF n = 0 THEN << >> ELSE FlatMap(f, n - 1) \o f[n]

\* passageComparisonService.ts:382-445.  Reading a field of a null item
\* throws inside the try block, and the catch returns []
parseRelationsFromResponse(response, focusPassageId, candidatePassages, similarities) ==
  LET json == jsonResponseOf(response)
      items == json.items
  IN IF json.thrown \/ \E i \in 1..Len(items) : items[i].isNull THEN << >>
     ELSE FlatMap([i \in 1..Len(items) |->
                    relationOfItem(items[i], focusPassageId, candidatePassages,
                                   similarities)], Len(items))

\* passageComparisonService.ts:866-888, one item
fullBooksRelationOfItem(item, sourcePassages, targetPassages) ==
  IF item.focus_passage_id \notin SeqRange(sourcePassages) THEN << >>
  ELSE IF item.related_passage_id \notin SeqRange(targetPassages) THEN << >>
  ELSE <<[focusPassageId |-> item.focus_passage_id,
          relatedPassageId |-> item.related_passage_id,
          relationType |-> item.relation_type,
          similarity |-> 100]>>

\* passageComparisonService.ts:830-896
parseFullBooksRelationsFromResponse(response, sourcePassages, targetPassages) ==
  LET json == jsonResponseOf(response)
      items == json.items
  IN IF json.thrown \/ \E i \in 1..Len(items) : items[i].isNull THEN << >>
     ELSE FlatMap([i \in 1..Len(items) |->
                    fullBooksRelationOfItem(items[i], sourcePassages, targetPassages)],
                  Len(items))

(***************************************************************************)
(* Threads of control                                                      *)
(*   auto: compareWithAllBooks (autoComparisonService.ts:75-187)           *)
(*   user: the handlers of BookComparison.tsx                              *)
(* Positions named below are awaits of an oracle, except the synchronous   *)
(* ones: pc "pairBegin" and cap.pc "begin", "returned", "threw".           *)
(***************************************************************************)
Threads == {"auto", "user"}

Busy(t) == pc[t] = "pairBegin" \/ cap[t].pc \in {"begin", "returned", "threw"}

CanRun(t) == \A u \in Threads \ {t} : ~Busy(u)

NoCap ==
  [pc |-> "off", src |-> "", tgt |-> "", topK |-> 0, key |-> << >>,
   pending |-> {}, retrieved |-> EmptyMap, queue |-> << >>,
   allRelations |-> EmptyMap, cause |-> "", progress |-> 0]

NewCap(src, tgt, topK, key) ==
  [NoCap EXCEPT !.pc = "begin", !.src = src, !.tgt = tgt, !.topK = topK, !.key = key]

NoIndex == [book |-> "", failed |-> {}, outcome |-> "none", recorded |-> FALSE]

NoFilter == [by |-> "", used |-> 0, visible |-> 0, sweeping |-> FALSE]

NoJobError == [key |-> << >>, direction |-> "", partial |-> EmptyMap]

\* the embeddings that arrive in one processPassages: every subset of the
\* passages, within the failure bound
IndexOutcomes(bookId) ==
  {ok \in SUBSET SeqRange(getPassages(bookId)) :
     failures + (Len(getPassages(bookId)) - Cardinality(ok)) <= MaxFailures}

Indexed(bookId, ok, recorded) ==
  [book |-> bookId, failed |-> SeqRange(getPassages(bookId)) \ ok,
   outcome |-> "returned", recorded |-> recorded]

\* passageComparisonService.ts:66-68
IndexThrew(bookId) ==
  [book |-> bookId, failed |-> {}, outcome |-> "threw", recorded |-> FALSE]

\* autoComparisonService.ts:192-207
updateComparisonProgress(jobs, comparisonKey, progress, status) ==
  IF comparisonKey \in DOMAIN jobs
  THEN [jobs EXCEPT ![comparisonKey] = [status |-> status, progress |-> progress]]
  ELSE jobs

\* the progress callback compareWithAllBooks hands to compareAllPassages
\* (autoComparisonService.ts:131-133, 165-167); the interactive caller's
\* callback only draws
ReportProgress(jobs, frame) ==
  IF frame.progress = 0 THEN jobs
  ELSE updateComparisonProgress(jobs, frame.key, frame.progress, "running")

\* conceptStore.ts:248-268
addBulkComparisons(stored, passageRelations) ==
  [x \in DOMAIN stored \cup DOMAIN passageRelations |->
     IF x \in DOMAIN passageRelations THEN passageRelations[x] ELSE stored[x]]

\* the classification oracle's answers in the process model: one item per
\* candidate, as the prompt asks (the parser is fed arbitrary answers in
\* SpecParse)
OracleResponses(candidates) ==
  {[form |-> "bare",
    items |-> [i \in 1..Len(candidates) |->
                 [isNull |-> FALSE, passage_id |-> candidates[i].passageId,
                  relation |-> "supports"]]]}

CandidateIds(candidates) == [i \in 1..Len(candidates) |-> candidates[i].passageId]

CandidateSims(candidates) == [i \in 1..Len(candidates) |-> candidates[i].similarity]

\* passageComparisonService.ts:111-117 and :224-230
TextsFound(candidates, targetBookId) ==
  \A i \in 1..Len(candidates) :
    candidates[i].passageId \in SeqRange(getPassages(targetBookId))

(***************************************************************************)
(* compareAllPassages (passageComparisonService.ts:138-251), per thread    *)
(***************************************************************************)
\* lines 219-243: the loop's next iteration up to its await, or the return
NextClassify(f) ==
  IF f.queue = << >> THEN [f EXCEPT !.pc = "returned", !.progress = 100]
  ELSE IF ~TextsFound(f.retrieved[Head(f.queue)], f.tgt)
       THEN [f EXCEPT !.pc = "threw", !.cause = "lookup"]
       ELSE [f EXCEPT !.pc = "classify"]

\* a variant that hands every source passage to classification, for comparison
AfterRetrievalUnfiltered(f) ==
  IF getPassages(f.src) = << >> THEN [f EXCEPT !.pc = "returned", !.progress = 100]
  ELSE [f EXCEPT !.queue = getPassages(f.src), !.progress = 60, !.pc = "classify"]

\* lines 207-217: Promise.all has resolved
AfterRetrieval(f) ==
  LET HasCandidates(p) == f.retrieved[p] # << >>
      queue == SelectSeq(getPassages(f.src), HasCandidates)
  IN IF queue = << >> THEN [f EXCEPT !.pc = "returned", !.progress = 100]
     ELSE NextClassify([f EXCEPT !.queue = queue, !.progress = 60])

\* lines 166-186: every source passage's retrieval is issued at once
StartRetrieval(f) ==
  IF getPassages(f.src) = << >> THEN AfterRetrieval(f)
  ELSE [f EXCEPT !.pc = "retrieve", !.progress = 20,
                 !.pending = SeqRange(getPassages(f.src))]

\* a variant that starts retrieval without indexing the target, for comparison
EnsureTargetUnindexed(f, pv) == StartRetrieval(f)

\* lines 160-164
EnsureTarget(f, pv) ==
  IF getBookVectorsIn(pv, f.tgt) = << >>
  THEN IF getPassages(f.tgt) = << >>
       THEN [f EXCEPT !.pc = "threw", !.cause = "index", !.progress = 10]
       ELSE [f EXCEPT !.pc = "idxTgt", !.progress = 10]
  ELSE StartRetrieval(f)

\* lines 153-158
EnsureSource(f, pv) ==
  IF getBookVectorsIn(pv, f.src) = << >>
  THEN IF getPassages(f.src) = << >>
       THEN [f EXCEPT !.pc = "threw", !.cause = "index", !.progress = 5]
       ELSE [f EXCEPT !.pc = "idxSrc", !.progress = 5]
  ELSE EnsureTarget(f, pv)

\* the book whose indexBook threw in frame f
ThrowerOf(f, pv) ==
  IF getBookVectorsIn(pv, f.src) = << >> /\ getPassages(f.src) = << >>
  THEN f.src ELSE f.tgt

CapBegin(t) ==
  /\ cap[t].pc = "begin"
  /\ CanRun(t)
  /\ LET f == EnsureSource(cap[t], passageVectors)
     IN /\ cap' = [cap EXCEPT ![t] = f]
        /\ currentComparisons' = ReportProgress(currentComparisons, f)
        /\ lastIndex' = IF f.pc = "threw" /\ f.cause = "index"
                        THEN IndexThrew(ThrowerOf(cap[t], passageVectors))
                        ELSE lastIndex
  /\ UNCHANGED <<apiKeysSet, passageVectors, indexedBooks, similarityThreshold,
                 storeThreshold, comparisons, bookComparisons, pc, sweep, user,
                 failures, sweeps, userOps, lastFilter, lastJobError,
                 thresholdBefore, call, ret>>

\* the await of indexBook(sourceBookId), line 157
CapIndexSource(t) ==
  /\ cap[t].pc = "idxSrc"
  /\ CanRun(t)
  /\ \E ok \in IndexOutcomes(cap[t].src) :
       LET pv == processPassages(passageVectors, getPassages(cap[t].src), cap[t].src, ok)
           f == EnsureTarget(cap[t], pv)
       IN /\ passageVectors' = pv
          /\ failures' = failures + Len(getPassages(cap[t].src)) - Cardinality(ok)
          /\ cap' = [cap EXCEPT ![t] = f]
          /\ currentComparisons' = ReportProgress(currentComparisons, f)
          /\ lastIndex' = IF f.pc = "threw" THEN IndexThrew(f.tgt)
                          ELSE Indexed(cap[t].src, ok, FALSE)
  /\ UNCHANGED <<apiKeysSet, indexedBooks, similarityThreshold, storeThreshold,
                 comparisons, bookComparisons, pc, sweep, user, sweeps, userOps,
                 lastFilter, lastJobError, thresholdBefore, call, ret>>

\* the await of indexBook(targetBookId), line 163
CapIndexTarget(t) ==
  /\ cap[t].pc = "idxTgt"
  /\ CanRun(t)
  /\ \E ok \in IndexOutcomes(cap[t].tgt) :
       LET pv == processPassages(passageVectors, getPassages(cap[t].tgt), cap[t].tgt, ok)
           f == StartRetrieval(cap[t])
       IN /\ passageVectors' = pv
          /\ failures' = failures + Len(getPassages(cap[t].tgt)) - Cardinality(ok)
          /\ cap' = [cap EXCEPT ![t] = f]
          /\ currentComparisons' = ReportProgress(currentComparisons, f)
          /\ lastIndex' = Indexed(cap[t].tgt, ok, FALSE)
  /\ UNCHANGED <<apiKeysSet, indexedBooks, similarityThreshold, storeThreshold,
                 comparisons, bookComparisons, pc, sweep, user, sweeps, userOps,
                 lastFilter, lastJobError, thresholdBefore, call, ret>>

\* a variant that classifies a passage as soon as its own retrieval has
\* settled with candidates, for comparison
RetrievedEager(f, p, cands) ==
  LET g == [f EXCEPT !.retrieved = MapPut(f.retrieved, p, cands),
                     !.pending = f.pending \ {p}]
  IN IF cands # << >> THEN NextClassify([g EXCEPT !.queue = <<p>>, !.progress = 60])
     ELSE IF g.pending = {} THEN AfterRetrieval(g) ELSE g

\* the frame once passage p's retrieval has settled with candidates cands
Retrieved(f, p, cands) ==
  LET g == [f EXCEPT !.retrieved = MapPut(f.retrieved, p, cands),
                     !.pending = f.pending \ {p}]
  IN IF g.pending = {} THEN AfterRetrieval(g) ELSE g

Filtered(t) ==
  [by |-> t, used |-> similarityThreshold, visible |-> storeThreshold,
   sweeping |-> pc["auto"] \notin {"idle", "done"}]

\* lines 179-204, one source passage: the query embedding arrives, the
\* ranking is cut to topK, then filtered by the threshold of that moment
CapRetrieveOk(t) ==
  /\ cap[t].pc = "retrieve"
  /\ CanRun(t)
  /\ \E p \in cap[t].pending :
       LET targetVectors == getBookVectors(cap[t].tgt)
       IN IF targetVectors = << >>
          THEN \* embeddingService.ts:140-142 throws; caught at line 196
               /\ cap' = [cap EXCEPT ![t] = Retrieved(cap[t], p, << >>)]
               /\ lastFilter' = lastFilter
          ELSE \E top \in topResultsOf(embeddingOf(p), targetVectors, cap[t].topK) :
                 /\ cap' = [cap EXCEPT ![t] =
                              Retrieved(cap[t], p,
                                        thresholdPassages(top, similarityThreshold))]
                 /\ lastFilter' = Filtered(t)
  /\ currentComparisons' =
       IF cap'[t].pc = "retrieve" THEN currentComparisons
       ELSE ReportProgress(currentComparisons, cap'[t])
  /\ UNCHANGED <<apiKeysSet, passageVectors, indexedBooks, similarityThreshold,
                 storeThreshold, comparisons, bookComparisons, pc, sweep, user,
                 failures, sweeps, userOps, lastIndex, lastJobError,
                 thresholdBefore, call, ret>>

\* lines 196-203: the query embedding failed; the passage has no candidate
CapRetrieveFail(t) ==
  /\ cap[t].pc = "retrieve"
  /\ CanRun(t)
  /\ failures < MaxFailures
  /\ \E p \in cap[t].pending :
       cap' = [cap EXCEPT ![t] = Retrieved(cap[t], p, << >>)]
  /\ failures' = failures + 1
  /\ currentComparisons' =
       IF cap'[t].pc = "retrieve" THEN currentComparisons
       ELSE ReportProgress(currentComparisons, cap'[t])
  /\ UNCHANGED <<apiKeysSet, passageVectors, indexedBooks, similarityThreshold,
                 storeThreshold, comparisons, bookComparisons, pc, sweep, user,
                 sweeps, userOps, lastIndex, lastFilter, lastJobError,
                 thresholdBefore, call, ret>>

\* lines 238-245 with analyzeRelationships (295-320): the oracle answers
CapClassifyOk(t) ==
  /\ cap[t].pc = "classify"
  /\ CanRun(t)
  /\ LET passageId == Head(cap[t].queue)
         candidates == cap[t].retrieved[passageId]
     IN \E response \in OracleResponses(candidates) :
          LET relations == parseRelationsFromResponse(
                             response, passageId, CandidateIds(candidates),
                             CandidateSims(candidates))
              f == NextClassify(
                     [cap[t] EXCEPT !.allRelations = MapPut(@, passageId, relations),
                                    !.queue = Tail(@)])
          IN /\ cap' = [cap EXCEPT ![t] = f]
             /\ currentComparisons' =
                  IF f.pc = "returned" THEN ReportProgress(currentComparisons, f)
                  ELSE currentComparisons
  /\ UNCHANGED <<apiKeysSet, passageVectors, indexedBooks, similarityThreshold,
                 storeThreshold, comparisons, bookComparisons, pc, sweep, user,
                 failures, sweeps, userOps, lastIndex, lastFilter, lastJobError,
                 thresholdBefore, call, ret>>

\* lines 316-319: callLlamaDirectly threw (HTTP error, network error);
\* analyzeRelationships rethrows and the loop has no handler
CapClassifyFail(t) ==
  /\ cap[t].pc = "classify"
  /\ CanRun(t)
  /\ failures < MaxFailures
  /\ failures' = failures + 1
  /\ cap' = [cap EXCEPT ![t] = [@ EXCEPT !.pc = "threw", !.cause = "classify"]]
  /\ UNCHANGED <<apiKeysSet, passageVectors, indexedBooks, similarityThreshold,
                 storeThreshold, currentComparisons, comparisons, bookComparisons,
                 pc, sweep, user, sweeps, userOps, lastIndex, lastFilter,
                 lastJobError, thresholdBefore, call, ret>>

(***************************************************************************)
(* compareWithAllBooks (autoComparisonService.ts:75-187)                   *)
(***************************************************************************)
\* autoComparisonService.ts:28-33, called by page.tsx when the keys load
setApiKeys ==
  /\ ~apiKeysSet
  /\ \A t \in Threads : ~Busy(t)
  /\ apiKeysSet' = TRUE
  /\ UNCHANGED <<passageVectors, indexedBooks, similarityThreshold, storeThreshold,
                 currentComparisons, comparisons, bookComparisons, pc, sweep, user,
                 cap, failures, sweeps, userOps, lastIndex, lastFilter,
                 lastJobError, thresholdBefore, call, ret>>

Job(status, progress) == [status |-> status, progress |-> progress]

\* line 85
existingBooksOf(newBook) ==
  LET Other(b) == b # newBook IN SelectSeq(books, Other)

\* lines 75-106 up to the await of indexBook(newBook.id)
compareWithAllBooks(newBook) ==
  /\ pc["auto"] \in {"idle", "done"}
  /\ CanRun("auto")
  /\ sweeps < MaxSweeps
  /\ sweeps' = sweeps + 1
  /\ thresholdBefore' = similarityThreshold
  /\ sweep' = [newBook |-> newBook, existing |-> existingBooksOf(newBook), k |-> 1,
               results |-> EmptyMap]
  /\ IF ~apiKeysSet \/ existingBooksOf(newBook) = << >>
     THEN \* lines 76-90: nothing to do
          /\ pc' = [pc EXCEPT !["auto"] = "done"]
          /\ UNCHANGED <<similarityThreshold, lastIndex>>
     ELSE /\ similarityThreshold' = autoSimilarityThreshold
          /\ IF getPassages(newBook) = << >>
             THEN \* indexBook throws at once; lines 103-106 return
                  /\ pc' = [pc EXCEPT !["auto"] = "done"]
                  /\ lastIndex' = IndexThrew(newBook)
             ELSE /\ pc' = [pc EXCEPT !["auto"] = "indexNew"]
                  /\ UNCHANGED lastIndex
  /\ UNCHANGED <<apiKeysSet, passageVectors, indexedBooks, storeThreshold,
                 currentComparisons, comparisons, bookComparisons, user, cap,
                 failures, userOps, lastFilter, lastJobError, call, ret>>

\* lines 101-102: indexBook(newBook.id) has returned
SweepIndexNew ==
  /\ pc["auto"] = "indexNew"
  /\ CanRun("auto")
  /\ \E ok \in IndexOutcomes(sweep.newBook) :
       /\ passageVectors' = processPassages(passageVectors, getPassages(sweep.newBook),
                                            sweep.newBook, ok)
       /\ failures' = failures + Len(getPassages(sweep.newBook)) - Cardinality(ok)
       /\ lastIndex' = Indexed(sweep.newBook, ok, TRUE)
  /\ indexedBooks' = indexedBooks \cup {sweep.newBook}
  /\ pc' = [pc EXCEPT !["auto"] = "pairBegin"]
  /\ UNCHANGED <<apiKeysSet, similarityThreshold, storeThreshold, currentComparisons,
                 comparisons, bookComparisons, sweep, user, cap, sweeps, userOps,
                 lastFilter, lastJobError, thresholdBefore, call, ret>>

\* lines 109-143 up to the next await, or lines 184-187 after the last pair
SweepPair ==
  /\ pc["auto"] = "pairBegin"
  /\ CanRun("auto")
  /\ IF sweep.k > Len(sweep.existing)
     THEN /\ similarityThreshold' = storeThreshold
          /\ pc' = [pc EXCEPT !["auto"] = "done"]
          /\ UNCHANGED <<currentComparisons, sweep, cap, lastIndex, lastJobError>>
     ELSE LET existingBook == sweep.existing[sweep.k]
              comparisonKey == <<sweep.newBook, existingBook>>
              started == MapPut(currentComparisons, comparisonKey, Job("running", 0))
          IN /\ UNCHANGED similarityThreshold
             /\ IF existingBook \notin indexedBooks
                THEN IF getPassages(existingBook) = << >>
                     THEN \* indexBook throws at once; lines 177-181
                          /\ currentComparisons' =
                               updateComparisonProgress(started, comparisonKey, 0, "error")
                          /\ sweep' = [sweep EXCEPT !.k = @ + 1]
                          /\ lastIndex' = IndexThrew(existingBook)
                          /\ lastJobError' = [key |-> comparisonKey, direction |-> "index",
                                              partial |-> EmptyMap]
                          /\ UNCHANGED <<pc, cap>>
                     ELSE /\ currentComparisons' =
                               updateComparisonProgress(started, comparisonKey, 5, "running")
                          /\ pc' = [pc EXCEPT !["auto"] = "indexExisting"]
                          /\ UNCHANGED <<sweep, cap, lastIndex, lastJobError>>
                ELSE /\ currentComparisons' = started
                     /\ cap' = [cap EXCEPT !["auto"] =
                                  NewCap(sweep.newBook, existingBook, SweepTopK, comparisonKey)]
                     /\ pc' = [pc EXCEPT !["auto"] = "fwd"]
                     /\ UNCHANGED <<sweep, lastIndex, lastJobError>>
  /\ UNCHANGED <<apiKeysSet, passageVectors, indexedBooks, storeThreshold, comparisons,
                 bookComparisons, user, failures, sweeps, userOps, lastFilter,
                 thresholdBefore, call, ret>>

\* lines 126-143: indexBook(existingBook.id) has returned
SweepIndexExisting ==
  /\ pc["auto"] = "indexExisting"
  /\ CanRun("auto")
  /\ LET existingBook == sweep.existing[sweep.k]
     IN /\ \E ok \in IndexOutcomes(existingBook) :
             /\ passageVectors' = processPassages(passageVectors, getPassages(existingBook),
                                                  existingBook, ok)
             /\ failures' = failures + Len(getPassages(existingBook)) - Cardinality(ok)
             /\ lastIndex' = Indexed(existingBook, ok, TRUE)
        /\ indexedBooks' = indexedBooks \cup {existingBook}
        /\ cap' = [cap EXCEPT !["auto"] =
                     NewCap(sweep.newBook, existingBook, SweepTopK,
                            <<sweep.newBook, existingBook>>)]
  /\ pc' = [pc EXCEPT !["auto"] = "fwd"]
  /\ UNCHANGED <<apiKeysSet, similarityThreshold, storeThreshold, currentComparisons,
                 comparisons, bookComparisons, sweep, user, sweeps, userOps,
                 lastFilter, lastJobError, thresholdBefore, call, ret>>

\* a sweep that gives up at the first failed forward comparison, for comparison
SweepAfterForwardAborting ==
  /\ pc["auto"] = "fwd"
  /\ cap["auto"].pc \in {"returned", "threw"}
  /\ LET existingBook == sweep.existing[sweep.k]
         comparisonKey == <<sweep.newBook, existingBook>>
         reverseComparisonKey == <<existingBook, sweep.newBook>>
     IN IF cap["auto"].pc = "returned"
        THEN /\ comparisons' = addBulkComparisons(comparisons, cap["auto"].allRelations)
             /\ bookComparisons' = bookComparisons \cup {comparisonKey}
             /\ currentComparisons' =
                  MapPut(currentComparisons, reverseComparisonKey, Job("running", 0))
             /\ cap' = [cap EXCEPT !["auto"] =
                          NewCap(existingBook, sweep.newBook, SweepTopK,
                                 reverseComparisonKey)]
             /\ pc' = [pc EXCEPT !["auto"] = "rev"]
             /\ sweep' = [sweep EXCEPT !.results = cap["auto"].allRelations]
             /\ UNCHANGED lastJobError
        ELSE /\ currentComparisons' =
                  updateComparisonProgress(currentComparisons, comparisonKey, 0, "error")
             /\ lastJobError' = [key |-> comparisonKey, direction |-> "forward",
                                 partial |-> cap["auto"].allRelations]
             /\ cap' = [cap EXCEPT !["auto"] = NoCap]
             /\ pc' = [pc EXCEPT !["auto"] = "done"]
             /\ UNCHANGED <<sweep, comparisons, bookComparisons>>
  /\ UNCHANGED <<apiKeysSet, passageVectors, indexedBooks, similarityThreshold,
                 storeThreshold, user, failures, sweeps, userOps, lastIndex,
                 lastFilter, thresholdBefore, call, ret>>

\* lines 137-157 after the new-to-existing compareAllPassages, or 177-181
SweepAfterForward ==
  /\ pc["auto"] = "fwd"
  /\ cap["auto"].pc \in {"returned", "threw"}
  /\ LET existingBook == sweep.existing[sweep.k]
         comparisonKey == <<sweep.newBook, existingBook>>
         reverseComparisonKey == <<existingBook, sweep.newBook>>
     IN IF cap["auto"].pc = "returned"
        THEN /\ comparisons' = addBulkComparisons(comparisons, cap["auto"].allRelations)
             /\ bookComparisons' = bookComparisons \cup {comparisonKey}
             /\ currentComparisons' =
                  MapPut(currentComparisons, reverseComparisonKey, Job("running", 0))
             /\ cap' = [cap EXCEPT !["auto"] =
                          NewCap(existingBook, sweep.newBook, SweepTopK,
                                 reverseComparisonKey)]
             /\ pc' = [pc EXCEPT !["auto"] = "rev"]
             /\ sweep' = [sweep EXCEPT !.results = cap["auto"].allRelations]
             /\ UNCHANGED lastJobError
        ELSE /\ currentComparisons' =
                  updateComparisonProgress(currentComparisons, comparisonKey, 0, "error")
             /\ lastJobError' = [key |-> comparisonKey, direction |-> "forward",
                                 partial |-> cap["auto"].allRelations]
             /\ sweep' = [sweep EXCEPT !.k = @ + 1]
             /\ cap' = [cap EXCEPT !["auto"] = NoCap]
             /\ pc' = [pc EXCEPT !["auto"] = "pairBegin"]
             /\ UNCHANGED <<comparisons, bookComparisons>>
  /\ UNCHANGED <<apiKeysSet, passageVectors, indexedBooks, similarityThreshold,
                 storeThreshold, user, failures, sweeps, userOps, lastIndex,
                 lastFilter, thresholdBefore, call, ret>>

\* lines 160-175 after the existing-to-new compareAllPassages, or 177-181:
\* the handler names comparisonKey, the new-to-existing job
SweepAfterReverse ==
  /\ pc["auto"] = "rev"
  /\ cap["auto"].pc \in {"returned", "threw"}
  /\ LET existingBook == sweep.existing[sweep.k]
         comparisonKey == <<sweep.newBook, existingBook>>
         reverseComparisonKey == <<existingBook, sweep.newBook>>
     IN IF cap["auto"].pc = "returned"
        THEN /\ comparisons' = addBulkComparisons(comparisons, cap["auto"].allRelations)
             /\ bookComparisons' = bookComparisons \cup {reverseComparisonKey}
             /\ currentComparisons' =
                  updateComparisonProgress(
                    updateComparisonProgress(currentComparisons, comparisonKey,
                                             100, "complete"),
                    reverseComparisonKey, 100, "complete")
             /\ UNCHANGED lastJobError
        ELSE /\ currentComparisons' =
                  updateComparisonProgress(currentComparisons, comparisonKey, 0, "error")
             /\ lastJobError' =
                  [key |-> comparisonKey, direction |-> "reverse",
                   partial |-> addBulkComparisons(sweep.results,
                                                  cap["auto"].allRelations)]
             /\ UNCHANGED <<comparisons, bookComparisons>>
  /\ sweep' = [sweep EXCEPT !.k = @ + 1, !.results = EmptyMap]
  /\ cap' = [cap EXCEPT !["auto"] = NoCap]
  /\ pc' = [pc EXCEPT !["auto"] = "pairBegin"]
  /\ UNCHANGED <<apiKeysSet, passageVectors, indexedBooks, similarityThreshold,
                 storeThreshold, user, failures, sweeps, userOps, lastIndex,
                 lastFilter, thresholdBefore, call, ret>>

(***************************************************************************)
(* The interactive handlers (BookComparison.tsx) and compareWithBook       *)
(* (passageComparisonService.ts:81-133)                                    *)
(***************************************************************************)
\* the slider's positions tried (BookComparison.tsx:328-333: 0 to 1 by 0.05)
SliderValues == {60, 90}

\* the book a sweep is started for: the upload with passages, or the empty one
NewBooks == {"N", "Z"}

\* the (source, target) pair chosen in the interactive panel
UserPairs == {<<"N", "E">>, <<"N", "Z">>}

NoUser == [src |-> "", tgt |-> "", passage |-> "", candidates |-> << >>]

\* BookComparison.tsx:87-92
handleThresholdChange(value) ==
  /\ pc["user"] = "idle"
  /\ CanRun("user")
  /\ userOps < MaxUserOps
  /\ userOps' = userOps + 1
  /\ storeThreshold' = value
  /\ similarityThreshold' = value
  /\ UNCHANGED <<apiKeysSet, passageVectors, indexedBooks, currentComparisons,
                 comparisons, bookComparisons, pc, sweep, user, cap, failures,
                 sweeps, lastIndex, lastFilter, lastJobError, thresholdBefore,
                 call, ret>>

\* passageComparisonService.ts:88-100: compareWithBook up to its first await;
\* the position, given the index pv ("idle": indexBook threw at once and
\* handleCompare's catch ended the operation)
CwbBegin(targetBookId, pv) ==
  IF getBookVectorsIn(pv, targetBookId) = << >>
  THEN IF getPassages(targetBookId) = << >> THEN "idle" ELSE "cwbIndex"
  ELSE "cwbRetrieve"

\* BookComparison.tsx:94-145 up to the first await
handleCompare(sourceBookId, targetBookId, selectedPassageId) ==
  /\ pc["user"] = "idle"
  /\ CanRun("user")
  /\ userOps < MaxUserOps
  /\ sourceBookId # targetBookId
  /\ selectedPassageId \in SeqRange(getPassages(sourceBookId))
  /\ userOps' = userOps + 1
  /\ user' = [NoUser EXCEPT !.src = sourceBookId, !.tgt = targetBookId,
                            !.passage = selectedPassageId]
  /\ IF targetBookId \notin indexedBooks
     THEN IF getPassages(targetBookId) = << >>
          THEN /\ pc' = pc
               /\ lastIndex' = IndexThrew(targetBookId)
          ELSE /\ pc' = [pc EXCEPT !["user"] = "hcIndex"]
               /\ UNCHANGED lastIndex
     ELSE /\ pc' = [pc EXCEPT !["user"] = CwbBegin(targetBookId, passageVectors)]
          /\ lastIndex' = IF CwbBegin(targetBookId, passageVectors) = "idle"
                          THEN IndexThrew(targetBookId) ELSE lastIndex
  /\ UNCHANGED <<apiKeysSet, passageVectors, indexedBooks, similarityThreshold,
                 storeThreshold, currentComparisons, comparisons, bookComparisons,
                 sweep, cap, failures, sweeps, lastFilter, lastJobError,
                 thresholdBefore, call, ret>>

\* BookComparison.tsx:131-145: indexBook(targetBookId) has returned
UserIndex ==
  /\ pc["user"] = "hcIndex"
  /\ CanRun("user")
  /\ \E ok \in IndexOutcomes(user.tgt) :
       LET pv == processPassages(passageVectors, getPassages(user.tgt), user.tgt, ok)
       IN /\ passageVectors' = pv
          /\ failures' = failures + Len(getPassages(user.tgt)) - Cardinality(ok)
          /\ lastIndex' = Indexed(user.tgt, ok, TRUE)
          /\ pc' = [pc EXCEPT !["user"] = CwbBegin(user.tgt, pv)]
  /\ indexedBooks' = indexedBooks \cup {user.tgt}
  /\ UNCHANGED <<apiKeysSet, similarityThreshold, storeThreshold, currentComparisons,
                 comparisons, bookComparisons, sweep, user, cap, sweeps, userOps,
                 lastFilter, lastJobError, thresholdBefore, call, ret>>

\* passageComparisonService.ts:92: compareWithBook's own indexBook has returned
CwbIndex ==
  /\ pc["user"] = "cwbIndex"
  /\ CanRun("user")
  /\ \E ok \in IndexOutcomes(user.tgt) :
       /\ passageVectors' = processPassages(passageVectors, getPassages(user.tgt),
                                            user.tgt, ok)
       /\ failures' = failures + Len(getPassages(user.tgt)) - Cardinality(ok)
       /\ lastIndex' = Indexed(user.tgt, ok, FALSE)
  /\ pc' = [pc EXCEPT !["user"] = "cwbRetrieve"]
  /\ UNCHANGED <<apiKeysSet, indexedBooks, similarityThreshold, storeThreshold,
                 currentComparisons, comparisons, bookComparisons, sweep, user, cap,
                 sweeps, userOps, lastFilter, lastJobError, thresholdBefore,
                 call, ret>>

\* conceptStore.ts:230-237
addComparison(stored, focusPassageId, relations) == MapPut(stored, focusPassageId, relations)

\* passageComparisonService.ts:96-130: the query embedding has arrived
CwbRetrieveOk ==
  /\ pc["user"] = "cwbRetrieve"
  /\ CanRun("user")
  /\ LET targetVectors == getBookVectors(user.tgt)
     IN IF targetVectors = << >>
        THEN \* embeddingService.ts:140-142 throws; handleCompare's catch
             /\ pc' = [pc EXCEPT !["user"] = "idle"]
             /\ UNCHANGED <<user, comparisons, lastFilter>>
        ELSE \E top \in topResultsOf(embeddingOf(user.passage), targetVectors,
                                      DefaultTopK) :
               LET candidates == thresholdPassages(top, similarityThreshold)
               IN /\ lastFilter' = Filtered("user")
                  /\ IF candidates = << >>
                     THEN \* line 107 returns []; BookComparison.tsx:151 stores it
                          /\ comparisons' = addComparison(comparisons, user.passage, << >>)
                          /\ pc' = [pc EXCEPT !["user"] = "idle"]
                          /\ UNCHANGED user
                     ELSE IF ~TextsFound(candidates, user.tgt)
                     THEN /\ pc' = [pc EXCEPT !["user"] = "idle"]
                          /\ UNCHANGED <<user, comparisons>>
                     ELSE /\ user' = [user EXCEPT !.candidates = candidates]
                          /\ pc' = [pc EXCEPT !["user"] = "cwbClassify"]
                          /\ UNCHANGED comparisons
  /\ UNCHANGED <<apiKeysSet, passageVectors, indexedBooks, similarityThreshold,
                 storeThreshold, currentComparisons, bookComparisons, sweep, cap,
                 failures, sweeps, userOps, lastIndex, lastJobError,
                 thresholdBefore, call, ret>>

\* embeddingService.ts:168-171: the query embedding failed; findSimilarPassages
\* rethrows, compareWithBook fails, handleCompare's catch shows the error
CwbRetrieveFail ==
  /\ pc["user"] = "cwbRetrieve"
  /\ CanRun("user")
  /\ failures < MaxFailures
  /\ failures' = failures + 1
  /\ pc' = [pc EXCEPT !["user"] = "idle"]
  /\ UNCHANGED <<apiKeysSet, passageVectors, indexedBooks, similarityThreshold,
                 storeThreshold, currentComparisons, comparisons, bookComparisons,
                 sweep, user, cap, sweeps, userOps, lastIndex, lastFilter,
                 lastJobError, thresholdBefore, call, ret>>

\* passageComparisonService.ts:126-132 and BookComparison.tsx:151
CwbClassifyOk ==
  /\ pc["user"] = "cwbClassify"
  /\ CanRun("user")
  /\ \E response \in OracleResponses(user.candidates) :
       comparisons' = addComparison(
                        comparisons, user.passage,
                        parseRelationsFromResponse(response, user.passage,
                                                   CandidateIds(user.candidates),
                                                   CandidateSims(user.candidates)))
  /\ pc' = [pc EXCEPT !["user"] = "idle"]
  /\ UNCHANGED <<apiKeysSet, passageVectors, indexedBooks, similarityThreshold,
                 storeThreshold, currentComparisons, bookComparisons, sweep, user,
                 cap, failures, sweeps, userOps, lastIndex, lastFilter,
                 lastJobError, thresholdBefore, call, ret>>

CwbClassifyFail ==
  /\ pc["user"] = "cwbClassify"
  /\ CanRun("user")
  /\ failures < MaxFailures
  /\ failures' = failures + 1
  /\ pc' = [pc EXCEPT !["user"] = "idle"]
  /\ UNCHANGED <<apiKeysSet, passageVectors, indexedBooks, similarityThreshold,
                 storeThreshold, currentComparisons, comparisons, bookComparisons,
                 sweep, user, cap, sweeps, userOps, lastIndex, lastFilter,
                 lastJobError, thresholdBefore, call, ret>>

\* BookComparison.tsx:168-212 up to the call of compareAllPassages
handleCompareAllPassages(sourceBookId, targetBookId) ==
  /\ pc["user"] = "idle"
  /\ CanRun("user")
  /\ userOps < MaxUserOps
  /\ sourceBookId # targetBookId
  /\ userOps' = userOps + 1
  /\ user' = [NoUser EXCEPT !.src = sourceBookId, !.tgt = targetBookId]
  /\ cap' = [cap EXCEPT !["user"] = NewCap(sourceBookId, targetBookId, UserTopK, << >>)]
  /\ pc' = [pc EXCEPT !["user"] = "hcap"]
  /\ UNCHANGED <<apiKeysSet, passageVectors, indexedBooks, similarityThreshold,
                 storeThreshold, currentComparisons, comparisons, bookComparisons,
                 sweep, failures, sweeps, lastIndex, lastFilter, lastJobError,
                 thresholdBefore, call, ret>>

\* BookComparison.tsx:214-237
UserAfterCap ==
  /\ pc["user"] = "hcap"
  /\ cap["user"].pc \in {"returned", "threw"}
  /\ IF cap["user"].pc = "returned"
     THEN /\ comparisons' = addBulkComparisons(comparisons, cap["user"].allRelations)
          /\ bookComparisons' = bookComparisons \cup {<<user.src, user.tgt>>}
     ELSE UNCHANGED <<comparisons, bookComparisons>>
  /\ cap' = [cap EXCEPT !["user"] = NoCap]
  /\ pc' = [pc EXCEPT !["user"] = "idle"]
  /\ UNCHANGED <<apiKeysSet, passageVectors, indexedBooks, similarityThreshold,
                 storeThreshold, currentComparisons, sweep, user, failures, sweeps,
                 userOps, lastIndex, lastFilter, lastJobError, thresholdBefore,
                 call, ret>>

(***************************************************************************)
(* The process-level specification                                         *)
(***************************************************************************)
\* nothing started: no sweep, no handler, nothing stored
Quiescent ==
  /\ apiKeysSet = FALSE
  /\ indexedBooks = {}
  /\ storeThreshold = StoreDefaultThreshold
  /\ currentComparisons = EmptyMap
  /\ comparisons = EmptyMap
  /\ bookComparisons = {}
  /\ pc = [t \in Threads |-> "idle"]
  /\ sweep = [newBook |-> "", existing |-> << >>, k |-> 1, results |-> EmptyMap]
  /\ user = NoUser
  /\ cap = [t \in Threads |-> NoCap]
  /\ failures = 0
  /\ userOps = 0
  /\ lastIndex = NoIndex
  /\ lastFilter = NoFilter
  /\ lastJobError = NoJobError
  /\ thresholdBefore = DEFAULT_SIMILARITY_THRESHOLD

\* the state after construction of the stores and services
Idle ==
  /\ Quiescent
  /\ sweeps = 0
  /\ passageVectors = << >>
  /\ similarityThreshold = DEFAULT_SIMILARITY_THRESHOLD

NoCall == [fn |-> "none"]

NoRet == [status |-> "none", value |-> << >>]

Pending == [status |-> "pending", value |-> << >>]

Init ==
  /\ Idle
  /\ call = NoCall
  /\ ret = NoRet

Next ==
  \/ setApiKeys
  \/ \E newBook \in NewBooks : compareWithAllBooks(newBook)
  \/ SweepIndexNew
  \/ SweepPair
  \/ SweepIndexExisting
  \/ SweepAfterForward
  \/ SweepAfterReverse
  \/ \E t \in Threads :
       \/ CapBegin(t)
       \/ CapIndexSource(t)
       \/ CapIndexTarget(t)
       \/ CapRetrieveOk(t)
       \/ CapRetrieveFail(t)
       \/ CapClassifyOk(t)
       \/ CapClassifyFail(t)
  \/ \E value \in SliderValues : handleThresholdChange(value)
  \/ \E pair \in UserPairs : \E p \in PassageIds : handleCompare(pair[1], pair[2], p)
  \/ UserIndex
  \/ CwbIndex
  \/ CwbRetrieveOk
  \/ CwbRetrieveFail
  \/ CwbClassifyOk
  \/ CwbClassifyFail
  \/ \E pair \in UserPairs : handleCompareAllPassages(pair[1], pair[2])
  \/ UserAfterCap

Spec == Init /\ [][Next]_vars

\* the continuations of the two threads: an oracle call that was issued
\* settles and the event loop runs the code that awaited it
AutoStep ==
  \/ SweepIndexNew
  \/ SweepPair
  \/ SweepIndexExisting
  \/ SweepAfterForward
  \/ SweepAfterReverse
  \/ CapBegin("auto")
  \/ CapIndexSource("auto")
  \/ CapIndexTarget("auto")
  \/ CapRetrieveOk("auto")
  \/ CapRetrieveFail("auto")
  \/ CapClassifyOk("auto")
  \/ CapClassifyFail("auto")

UserStep ==
  \/ CapBegin("user")
  \/ CapIndexSource("user")
  \/ CapIndexTarget("user")
  \/ CapRetrieveOk("user")
  \/ CapRetrieveFail("user")
  \/ CapClassifyOk("user")
  \/ CapClassifyFail("user")
  \/ UserIndex
  \/ CwbIndex
  \/ CwbRetrieveOk
  \/ CwbRetrieveFail
  \/ CwbClassifyOk
  \/ CwbClassifyFail
  \/ UserAfterCap

\* every oracle call settles (with an answer or an error) and every
\* continuation is run; uploads and clicks happen or not
FairSpec == Spec /\ WF_vars(AutoStep) /\ WF_vars(UserStep)

\* the automatic sweep with the threshold slider as the only interactive
\* operation
NextSweep ==
  \/ setApiKeys
  \/ \E newBook \in BookIds : compareWithAllBooks(newBook)
  \/ AutoStep
  \/ \E value \in SliderValues : handleThresholdChange(value)

SpecSweep == Init /\ [][NextSweep]_vars /\ WF_vars(AutoStep)

\* compareWithAllBooks called again: the sweep-only specification with room
\* for one sweep more than MaxSweeps
InitRepeat ==
  /\ Quiescent
  /\ sweeps = -1
  /\ passageVectors = << >>
  /\ similarityThreshold = DEFAULT_SIMILARITY_THRESHOLD
  /\ call = NoCall
  /\ ret = NoRet

SpecRepeat == InitRepeat /\ [][NextSweep]_vars

(***************************************************************************)
(* The response parsers as pure functions: Init draws one call, the action *)
(* applies the parser to it.                                               *)
(***************************************************************************)
\* longest JSON array in an oracle response
MaxItems == 2

NullItem == [isNull |-> TRUE, passage_id |-> Undefined, relation |-> Undefined]

\* ids an oracle may put in an item: candidates, the focus passage, nothing
ItemIds == {"e1", "e2", "n1", Undefined}

ItemRelations == {"supports", "analogous", "unrelated", Undefined}

PassageItems ==
  {[isNull |-> FALSE, passage_id |-> id, relation |-> r] :
     id \in ItemIds, r \in ItemRelations}

NullFullItem ==
  [isNull |-> TRUE, focus_passage_id |-> Undefined,
   related_passage_id |-> Undefined, relation_type |-> Undefined]

FullItemIds == {"n1", "e1", Undefined}

FullItemRelations == {"contradicts", "unrelated", Undefined}

FullItems ==
  {[isNull |-> FALSE, focus_passage_id |-> f, related_passage_id |-> r,
    relation_type |-> ty] :
     f \in FullItemIds, r \in FullItemIds, ty \in FullItemRelations}

ItemSeqs(S) == UNION {[1..n -> S] : n \in 0..MaxItems}

Responses(S) ==
  {[form |-> f, items |-> its] : f \in ItemForms, its \in ItemSeqs(S)}
    \cup {[form |-> f, items |-> << >>] : f \in ResponseForms \ ItemForms}

\* candidate lists as compareWithBook hands them over, with their similarities
CandidateLists ==
  {[ids |-> <<"e1">>, sims |-> <<80>>], [ids |-> <<"e1", "e2">>, sims |-> <<80, 60>>]}

ParseCalls ==
  {[fn |-> "parseRelationsFromResponse", response |-> r, focusPassageId |-> "n1",
    candidatePassages |-> c.ids, similarities |-> c.sims] :
     r \in Responses(PassageItems \cup {NullItem}), c \in CandidateLists}

FullCalls ==
  {[fn |-> "parseFullBooksRelationsFromResponse", response |-> r,
    sourcePassages |-> <<"n1", "n2">>, targetPassages |-> <<"e1">>] :
     r \in Responses(FullItems \cup {NullFullItem})}

InitParse ==
  /\ Idle
  /\ \/ call \in ParseCalls
     \/ call \in FullCalls
  /\ ret = Pending

ParseRelations ==
  /\ call.fn = "parseRelationsFromResponse"
  /\ ret.status = "pending"
  /\ ret' = [status |-> "returned",
             value |-> parseRelationsFromResponse(call.response, call.focusPassageId,
                         call.candidatePassages, call.similarities)]
  /\ UNCHANGED <<procVars, call>>

ParseFullBooks ==
  /\ call.fn = "parseFullBooksRelationsFromResponse"
  /\ ret.status = "pending"
  /\ ret' = [status |-> "returned",
             value |-> parseFullBooksRelationsFromResponse(call.response,
                         call.sourcePassages, call.targetPassages)]
  /\ UNCHANGED <<procVars, call>>

NextParse == ParseRelations \/ ParseFullBooks

SpecParse == InitParse /\ [][NextParse]_vars

(***************************************************************************)
(* Candidate selection as a pure function of the index, the query, topK    *)
(* and the threshold in force: findSimilarPassages followed by the         *)
(* threshold filter of compareWithBook / compareAllPassages.               *)
(***************************************************************************)
\* most vectors of the target book in the index
MaxVectors == 3

\* largest topK asked for
MaxTopK == 3

\* norm 5 or 0: similarities 1, 0.8, 0.6, 0, -0.8, -1 and NaN
Vectors == {<<5, 0>>, <<4, 3>>, <<0, 5>>, <<-4, -3>>, <<0, 0>>}

QueryVectors == {<<5, 0>>, <<4, 3>>, <<0, 0>>}

TargetIds == <<"t1", "t2", "t3", "t4", "t5">>

\* the slider's range, and a value above every similarity
Thresholds == {0, 50, 75, 110}

\* the index holds one passage of another book next to those of book T
IndexContents ==
  {<<[passageId |-> "o1", bookId |-> "O", vector |-> <<5, 0>>]>> \o
     [i \in 1..Len(vs) |-> [passageId |-> TargetIds[i], bookId |-> "T", vector |-> vs[i]]] :
       vs \in UNION {[1..n -> Vectors] : n \in 0..Min(MaxVectors, Len(TargetIds))}}

InitSelect ==
  /\ Quiescent
  /\ sweeps = 0
  /\ passageVectors \in IndexContents
  /\ similarityThreshold \in Thresholds
  /\ call \in {[fn |-> "findSimilarPassages", queryVector |-> q, targetBookId |-> "T",
                 topK |-> k] : q \in QueryVectors, k \in 0..MaxTopK}
  /\ ret = Pending

\* embeddingService.ts:136-167 then passageComparisonService.ts:103 (:189)
SelectCandidates ==
  /\ call.fn = "findSimilarPassages"
  /\ ret.status = "pending"
  /\ LET targetVectors == getBookVectors(call.targetBookId)
     IN IF targetVectors = << >>
        THEN ret' = [status |-> "threw", value |-> << >>]
        ELSE \E top \in topResultsOf(call.queryVector, targetVectors, call.topK) :
               ret' = [status |-> "returned",
                       value |-> thresholdPassages(top, similarityThreshold)]
  /\ UNCHANGED <<procVars, call>>

NextSelect == SelectCandidates

SpecSelect == InitSelect /\ [][NextSelect]_vars

(***************************************************************************)
(* Full-book analysis (passageComparisonService.ts:452-679) as pure        *)
(* functions.  Of a passage only what the code looks at is kept: whether   *)
(* its text starts with a "Chapter N" / "Part N" heading, and its length.  *)
(***************************************************************************)
\* longest passage sequence given to estimateChapters
MaxPassages == 5

\* line 486
maxTokensPerBatch == 800000

\* line 627: passageText.length < 100
ShortPassageLength == 100

RECURSIVE SumLengths(_)
\* lines 477-479: reduce((acc, p) => acc + p.text.length, 0)
SumLengths(passages) ==
  IF passages = << >> THEN 0 ELSE Head(passages).length + SumLengths(Tail(passages))

\* line 485: totalLength / 4 is a floating-point division; the quotient is
\* kept exactly as whole tokens and remaining quarters
estimatedTokensOf(totalLength) ==
  [whole |-> totalLength \div 4, quarters |-> totalLength % 4]

\* line 491: estimatedTokens > maxTokensPerBatch
ExceedsBudget(estimatedTokens) ==
  \/ estimatedTokens.whole > maxTokensPerBatch
  \/ estimatedTokens.whole = maxTokensPerBatch /\ estimatedTokens.quarters > 0

\* lines 624-628, passage i counted from 0
isChapterBoundary(passages, i) ==
  \/ passages[i + 1].heading
  \/ passages[i + 1].length < ShortPassageLength /\ i < Len(passages) - 1

Chapter(index, startIdx, endIdx) ==
  [index |-> index, startIdx |-> startIdx, endIdx |-> endIdx]

RECURSIVE DetectChaptersUnguarded(_, _, _, _)
\* a detection loop that closes a chapter at every boundary, also at one
\* where no passage has been gathered, for comparison
DetectChaptersUnguarded(passages, i, chapterStart, chapters) ==
  IF i < Len(passages)
  THEN IF isChapterBoundary(passages, i)
       THEN DetectChaptersUnguarded(
              passages, i + 1, i,
              Append(chapters, Chapter(Len(chapters), chapterStart, i - 1)))
       ELSE DetectChaptersUnguarded(passages, i + 1, chapterStart, chapters)
  ELSE IF chapterStart < Len(passages)
       THEN Append(chapters, Chapter(Len(chapters), chapterStart, Len(passages) - 1))
       ELSE chapters

RECURSIVE DetectChapters(_, _, _, _)
\* lines 619-648: the loop over the passages, then the final chapter
DetectChapters(passages, i, chapterStart, chapters) ==
  IF i < Len(passages)
  THEN IF isChapterBoundary(passages, i)
       THEN DetectChapters(
              passages, i + 1, i,
              IF i > chapterStart
              THEN Append(chapters, Chapter(Len(chapters), chapterStart, i - 1))
              ELSE chapters)
       ELSE DetectChapters(passages, i + 1, chapterStart, chapters)
  ELSE IF chapterStart < Len(passages)
       THEN Append(chapters, Chapter(Len(chapters), chapterStart, Len(passages) - 1))
       ELSE chapters

\* Math.ceil(a / b) for b > 0
CeilDiv(a, b) == (a + b - 1) \div b

RECURSIVE UniformChapters(_, _, _, _)
\* lines 652-660: for (i = 0; i < n; i += chapterSize)
UniformChapters(n, chapterSize, i, chapters) ==
  IF i < n
  THEN UniformChapters(n, chapterSize, i + chapterSize,
                       Append(chapters, Chapter(Len(chapters), i,
                                                Min(i + chapterSize - 1, n - 1))))
  ELSE chapters

\* lines 614-663
estimateChapters(passages) ==
  LET chapters == DetectChapters(passages, 0, 0, << >>)
  IN IF Len(chapters) = 0
     THEN UniformChapters(Len(passages), CeilDiv(Len(passages), 10), 0, << >>)
     ELSE chapters

RECURSIVE getPassagesForChapters(_, _)
\* lines 668-679
getPassagesForChapters(passages, chapters) ==
  IF chapters = << >> THEN << >>
  ELSE LET chapter == Head(chapters)
           last == Min(chapter.endIdx, Len(passages) - 1)
       IN (IF chapter.startIdx <= last
           THEN SubSeq(passages, chapter.startIdx + 1, last + 1) ELSE << >>)
          \o getPassagesForChapters(passages, Tail(chapters))

\* lines 452-500 and 537-609: the mode analyzeFullBooks takes and the oracle
\* calls it issues
analyzeFullBooks(sourcePassages, targetPassages, chaptersPerBatch) ==
  IF sourcePassages = << >> \/ targetPassages = << >>
  THEN [status |-> "threw", value |-> << >>]
  ELSE IF ExceedsBudget(estimatedTokensOf(SumLengths(sourcePassages)
                                            + SumLengths(targetPassages)))
       THEN [status |-> "returned",
             value |-> <<[mode |-> "chapters",
                          oracleCalls |->
                            CeilDiv(Len(estimateChapters(sourcePassages)), chaptersPerBatch)
                            * CeilDiv(Len(estimateChapters(targetPassages)),
                                      chaptersPerBatch)]>>]
       ELSE [status |-> "returned", value |-> <<[mode |-> "single", oracleCalls |-> 1]>>]

\* a heading, a short line, a paragraph, a heading followed by its text
PassageTexts ==
  {[heading |-> TRUE, length |-> 9], [heading |-> FALSE, length |-> 40],
   [heading |-> FALSE, length |-> 400], [heading |-> TRUE, length |-> 400]}

\* text lengths whose sums lie on both sides of 4 * maxTokensPerBatch
BookLengths == {1, 1599999, 1600000, 1600001, 1600002, 1600003}

\* books of one passage, and the book without passages
WholeBooks == {<< >>} \cup {<<[heading |-> FALSE, length |-> n]>> : n \in BookLengths}

\* longest book compared chapter by chapter, and largest chaptersPerBatch
MaxChapterPassages == 3

MaxChaptersPerBatch == 2

\* most oracle failures within one chapter-by-chapter analysis
MaxPairFailures == 1

\* passages of the books compared chapter by chapter: a heading or a paragraph
ChapterTexts == {[heading |-> TRUE, length |-> 9], [heading |-> FALSE, length |-> 400]}

ChapterSourceIds == <<"s1", "s2", "s3", "s4", "s5">>

\* getPassages of a book (lines 544-545): Passage records with their ids
ChapterBooks(ids) ==
  UNION {{[k \in 1..n |-> [id |-> ids[k], heading |-> texts[k].heading,
                           length |-> texts[k].length]] :
            texts \in [1..n -> ChapterTexts]} : n \in 1..MaxChapterPassages}

PassageIdsOf(passages) == [k \in 1..Len(passages) |-> passages[k].id]

\* lines 559 and 563: chapters.slice(i, i + chaptersPerBatch)
ChapterBatch(chapters, i, chaptersPerBatch) ==
  SubSeq(chapters, i + 1, Min(i + chaptersPerBatch, Len(chapters)))

\* lines 559-560
sourceChapterPassagesOf(c, i) ==
  getPassagesForChapters(c.sourcePassages,
    ChapterBatch(estimateChapters(c.sourcePassages), i, c.chaptersPerBatch))

\* lines 563-564
targetChapterPassagesOf(c, j) ==
  getPassagesForChapters(c.targetPassages,
    ChapterBatch(estimateChapters(c.targetPassages), j, c.chaptersPerBatch))

\* lines 556 and 569-572: 20 + Math.floor((completedBatches / totalBatches) * 70)
\* with totalBatches = S * T / (chaptersPerBatch * chaptersPerBatch), a
\* floating-point quotient; the floor is taken of the exact rational
BatchProgress(c, completedBatches) ==
  20 + (completedBatches * c.chaptersPerBatch * c.chaptersPerBatch * 70)
         \div (Len(estimateChapters(c.sourcePassages))
               * Len(estimateChapters(c.targetPassages)))

\* what the oracle answers for one pair of chapter groups (line 582): a
\* relation between the first passages of the two groups
ChapterResponses(sourceChapterPassages, targetChapterPassages) ==
  {[form |-> "bare",
    items |-> <<[isNull |-> FALSE,
                 focus_passage_id |-> sourceChapterPassages[1].id,
                 related_passage_id |-> targetChapterPassages[1].id,
                 relation_type |-> "supports"]>>]}

RECURSIVE MergeRelations(_, _)
\* lines 592-597
MergeRelations(allRelations, relations) ==
  IF relations = << >> THEN allRelations
  ELSE LET relation == Head(relations)
           had == IF relation.focusPassageId \in DOMAIN allRelations
                  THEN allRelations[relation.focusPassageId] ELSE << >>
       IN MergeRelations(MapPut(allRelations, relation.focusPassageId,
                                Append(had, relation)),
                         Tail(relations))

\* lines 558, 562 and 603-608: completedBatches++, the next pair of groups
\* and its progress report, or the return after the last pair
NextBatch(c, f) ==
  LET j2 == f.j + c.chaptersPerBatch
      wrap == j2 >= Len(estimateChapters(c.targetPassages))
      i2 == IF wrap THEN f.i + c.chaptersPerBatch ELSE f.i
      done == i2 >= Len(estimateChapters(c.sourcePassages))
  IN [f EXCEPT !.completedBatches = @ + 1,
               !.i = i2,
               !.j = IF wrap THEN 0 ELSE j2,
               !.status = IF done THEN "returned" ELSE "awaiting",
               !.progress = Append(@, IF done THEN 100
                                      ELSE BatchProgress(c, f.completedBatches + 1))]

\* a loop that gives up at the first pair the oracle fails on, for comparison
AfterBatchAborting(c, f, ok, relations) ==
  IF ok
  THEN NextBatch(c, [f EXCEPT !.value = MergeRelations(@, relations),
                              !.calls = Append(@, [i |-> f.i, j |-> f.j, ok |-> TRUE,
                                                   relations |-> relations])])
  ELSE [f EXCEPT !.status = "threw",
                 !.calls = Append(@, [i |-> f.i, j |-> f.j, ok |-> FALSE,
                                      relations |-> << >>])]

\* lines 580-603: the try around one pair; calls keeps what was asked of the
\* oracle and what came of it
AfterBatch(c, f, ok, relations) ==
  NextBatch(c, [f EXCEPT !.value = IF ok THEN MergeRelations(@, relations) ELSE @,
                         !.calls = Append(@, [i |-> f.i, j |-> f.j, ok |-> ok,
                                              relations |-> relations])])

ChapterCalls ==
  {[fn |-> "analyzeBooksByChapters", sourcePassages |-> src, targetPassages |-> tgt,
    chaptersPerBatch |-> n] :
     src \in ChapterBooks(ChapterSourceIds), tgt \in ChapterBooks(TargetIds),
     n \in 1..MaxChaptersPerBatch}

InitFull ==
  /\ Idle
  /\ \/ call \in {[fn |-> "estimateChapters", passages |-> ps] :
                     ps \in UNION {[1..n -> PassageTexts] : n \in 0..MaxPassages}}
     \/ call \in {[fn |-> "analyzeFullBooks", sourcePassages |-> src,
                    targetPassages |-> tgt, chaptersPerBatch |-> 1] :
                     src \in WholeBooks, tgt \in WholeBooks}
     \/ call \in ChapterCalls
  /\ ret = Pending

EstimateChapters ==
  /\ call.fn = "estimateChapters"
  /\ ret.status = "pending"
  /\ ret' = [status |-> "returned", value |-> estimateChapters(call.passages)]
  /\ UNCHANGED <<procVars, call>>

AnalyzeFullBooks ==
  /\ call.fn = "analyzeFullBooks"
  /\ ret.status = "pending"
  /\ ret' = analyzeFullBooks(call.sourcePassages, call.targetPassages,
                             call.chaptersPerBatch)
  /\ UNCHANGED <<procVars, call>>

\* lines 537-572: up to the first await of the oracle
AnalyzeBooksByChapters ==
  /\ call.fn = "analyzeBooksByChapters"
  /\ ret.status = "pending"
  /\ ret' = [status |-> "awaiting", value |-> EmptyMap, i |-> 0, j |-> 0,
             completedBatches |-> 0, calls |-> << >>,
             progress |-> <<20, BatchProgress(call, 0)>>]
  /\ UNCHANGED <<procVars, call>>

\* line 582 resolves: the response is parsed against the passages of the two
\* groups and merged
ChapterBatchOk ==
  /\ call.fn = "analyzeBooksByChapters"
  /\ ret.status = "awaiting"
  /\ \E response \in ChapterResponses(sourceChapterPassagesOf(call, ret.i),
                                      targetChapterPassagesOf(call, ret.j)) :
       ret' = AfterBatch(call, ret, TRUE,
                parseFullBooksRelationsFromResponse(response,
                  PassageIdsOf(sourceChapterPassagesOf(call, ret.i)),
                  PassageIdsOf(targetChapterPassagesOf(call, ret.j))))
  /\ UNCHANGED <<procVars, call>>

\* line 582 rejects
ChapterBatchFail ==
  /\ call.fn = "analyzeBooksByChapters"
  /\ ret.status = "awaiting"
  /\ Cardinality({k \in 1..Len(ret.calls) : ~ret.calls[k].ok}) < MaxPairFailures
  /\ ret' = AfterBatch(call, ret, FALSE, << >>)
  /\ UNCHANGED <<procVars, call>>

NextFull ==
  \/ EstimateChapters
  \/ AnalyzeFullBooks
  \/ AnalyzeBooksByChapters
  \/ ChapterBatchOk
  \/ ChapterBatchFail

SpecFull == InitFull /\ [][NextFull]_vars

\* the steps the program takes by itself; what the oracle does with a request
\* sent at line 792 (answer, reject, or neither) is not among them, and the
\* fetch carries no abort signal or timer
FullStep == EstimateChapters \/ AnalyzeFullBooks \/ AnalyzeBooksByChapters

SpecUnanswered == InitFull /\ [][NextFull]_vars /\ WF_vars(FullStep)

(***************************************************************************)
(* Frame effects of the two stores: addBulkComparisons on the stored       *)
(* comparisons (conceptStore.ts:248-268) and indexBook on the Vector Index *)
(* (passageComparisonService.ts:62-76, embeddingService.ts:94-122)         *)
(***************************************************************************)
StoredRelation(focusPassageId, relatedPassageId) ==
  [focusPassageId |-> focusPassageId, relatedPassageId |-> relatedPassageId,
   relationType |-> "supports", similarity |-> 80]

\* what compareAllPassages returns for source passages n1, n2 against a
\* target book with the given passages: per source passage classified, its
\* relations
ResultMaps(targetPassages) ==
  {[p \in DOMAIN related |->
      [i \in 1..Len(related[p]) |-> StoredRelation(p, related[p][i])]] :
     related \in UNION {[D -> {<< >>, targetPassages}] : D \in SUBSET {"n1", "n2"}}}

\* the store holds the results of N against E; the results of N against E
\* again, or against a second book F, are added
InitStore ==
  /\ Idle
  /\ \/ \E tgt \in {<<"e1">>, <<"f1">>} :
          call \in {[fn |-> "addBulkComparisons", stored |-> stored,
                     passageRelations |-> results, targetPassages |-> tgt] :
                      stored \in ResultMaps(<<"e1">>), results \in ResultMaps(tgt)}
     \/ call \in {[fn |-> "indexBook",
                    index |-> processPassages(<< >>, getPassages("N"), "N", ok),
                    bookId |-> "B", passages |-> ps] :
                     ok \in SUBSET SeqRange(getPassages("N")),
                     ps \in {<<"e1">>, <<"n1">>, <<"e1", "n1">>, <<"n1", "e1">>}}
  /\ ret = Pending

AddBulkComparisons ==
  /\ call.fn = "addBulkComparisons"
  /\ ret.status = "pending"
  /\ ret' = [status |-> "returned",
             value |-> addBulkComparisons(call.stored, call.passageRelations)]
  /\ UNCHANGED <<procVars, call>>

\* passageComparisonService.ts:62-76 over an index that holds book N
IndexBook ==
  /\ call.fn = "indexBook"
  /\ ret.status = "pending"
  /\ \E ok \in SUBSET SeqRange(call.passages) :
       ret' = [status |-> "returned",
               value |-> processPassages(call.index, call.passages, call.bookId, ok)]
  /\ UNCHANGED <<procVars, call>>

NextStore == AddBulkComparisons \/ IndexBook

SpecStore == InitStore /\ [][NextStore]_vars

(***************************************************************************)
(* Claims checked under Spec                                               *)
(***************************************************************************)
\* what the program reports about the corpus of index call li: vectors in
\* the Vector Index and, where the caller keeps IndexState, the entry in
\* indexedBooks
ReportedIndexed(li) ==
  /\ getBookVectors(li.book) # << >>
  /\ li.recorded => li.book \in indexedBooks

\* C1: after indexBook(c) has completed, c is reported as indexed if and
\* only if every passage of c produced an embedding
C1_IndexedIffAllEmbedded ==
  lastIndex.outcome = "returned" =>
    (ReportedIndexed(lastIndex) <=> lastIndex.failed = {})

\* C2: an indexBook call during which the embedding oracle failed for some
\* passage ends with an error
C2_EmbeddingFailureIsFatal ==
  lastIndex.failed # {} => lastIndex.outcome = "threw"

\* C3: once compareWithAllBooks has returned, every job on the progress
\* stream has status complete or error
C3_JobsTerminalAfterSweep ==
  pc["auto"] = "done" =>
    \A key \in DOMAIN currentComparisons :
      currentComparisons[key].status \in {"complete", "error"}

\* the step in which compareWithAllBooks returns
SweepReturns == pc'["auto"] = "done" /\ (pc["auto"] # "done" \/ sweeps' # sweeps)

\* C4: when compareWithAllBooks returns, on every exit path, the selector's
\* threshold is the one it had immediately before the sweep started
C4_ThresholdRestored ==
  [][SweepReturns => similarityThreshold' = thresholdBefore']_vars

\* C5: while a sweep is in progress an interactive comparison filters with
\* the interactive (caller-visible) threshold, and the sweep's own
\* retrievals filter with the sweep's threshold
C5_ThresholdsIsolated ==
  /\ lastFilter.by = "user" /\ lastFilter.sweeping => lastFilter.used = lastFilter.visible
  /\ lastFilter.by = "auto" => lastFilter.used = autoSimilarityThreshold

\* C6: a classification failure for one source passage does not fail
\* compareAllPassages as a whole
C6_ClassifyFailureIsLocal ==
  \A t \in Threads : ~(cap[t].pc = "threw" /\ cap[t].cause = "classify")

\* C7: when a sweep job is set to error after a comparison failed, the
\* relations the pair had computed before the failure are in the
\* comparison store
C7_PartialResultsRetained ==
  [][lastJobError' # lastJobError =>
       \A p \in DOMAIN lastJobError'.partial :
         p \in DOMAIN comparisons' /\ comparisons'[p] = lastJobError'.partial[p]]_vars

(***************************************************************************)
(* Claims checked under SpecParse                                          *)
(***************************************************************************)
\* C8: every relation the per-passage parser returns names one of the
\* candidates as relatedPassageId; every relation the full-book parser
\* returns names a source passage as focus and a target passage as related
C8_RelationsNameSuppliedIds ==
  ret.status = "returned" =>
    \A i \in 1..Len(ret.value) :
      IF call.fn = "parseRelationsFromResponse"
      THEN ret.value[i].relatedPassageId \in SeqRange(call.candidatePassages)
      ELSE /\ ret.value[i].focusPassageId \in SeqRange(call.sourcePassages)
           /\ ret.value[i].relatedPassageId \in SeqRange(call.targetPassages)

\* C8 happens: a response that names a candidate and a non-candidate has
\* been parsed, and exactly the candidate's relation came back
C8_Witness_ForeignIdDropped ==
  /\ ret.status = "returned"
  /\ call.fn = "parseRelationsFromResponse"
  /\ Len(call.response.items) = 2
  /\ \E i \in 1..2 : call.response.items[i].passage_id \notin SeqRange(call.candidatePassages)
  /\ Len(ret.value) = 1

\* C9: every relation returned has a relationType among supports,
\* contradicts, extends, analogous
C9_RelationTypeInEnumeration ==
  ret.status = "returned" =>
    \A i \in 1..Len(ret.value) : ret.value[i].relationType \in RelationTypes

(***************************************************************************)
(* Claims checked under SpecSelect                                         *)
(***************************************************************************)
\* C10: the candidates handed to classification are at most topK, and each
\* has similarity >= the threshold in force
C10_CandidatesWithinTopKAndThreshold ==
  ret.status = "returned" =>
    /\ Len(ret.value) <= call.topK
    /\ \A i \in 1..Len(ret.value) :
         /\ ret.value[i].similarity # NaN
         /\ ret.value[i].similarity >= similarityThreshold

\* C10 happens: the target book has more vectors than topK, one of them
\* below the threshold, and topK candidates were selected
C10_Witness_CutAndFiltered ==
  /\ ret.status = "returned"
  /\ call.topK > 0
  /\ Len(getBookVectors(call.targetBookId)) > call.topK
  /\ \E i \in 1..Len(getBookVectors(call.targetBookId)) :
       ~GreaterEq(cosineSimilarity(call.queryVector,
                                   getBookVectors(call.targetBookId)[i].vector),
                  similarityThreshold)
  /\ Len(ret.value) = call.topK

\* the layered chain: fence, slice, raw parse, fragment scan, in this order
Strategies == <<"fence", "slice", "raw", "scan">>

\* the strategy yields the response's items: the first three by parsing,
\* the fragment scan by finding item objects in the text
Yields(response, strategy) ==
  IF strategy = "scan" THEN response.form \in ItemForms /\ response.items # << >>
  ELSE ParsesToArray(response, strategy)

\* the items of the first strategy that yields, or none when every one fails
ChainItems(response) ==
  IF \E k \in 1..Len(Strategies) : Yields(response, Strategies[k])
  THEN response.items ELSE << >>

\* C13: the parser returns the relations of the items of the first strategy
\* of the chain that parses; an earlier strategy's failure falls through,
\* and the empty list comes back only when every strategy has failed
C13_ParserFallsThrough ==
  /\ ret.status = "returned"
  /\ call.fn = "parseRelationsFromResponse"
  /\ \A i \in 1..Len(call.response.items) : ~call.response.items[i].isNull
  => ret.value = parseRelationsFromResponse(
                   [form |-> "bare", items |-> ChainItems(call.response)],
                   call.focusPassageId, call.candidatePassages, call.similarities)

\* C14: a relation of the per-passage parser carries the similarity of the
\* candidate with the same passage id, whatever the order of the response's
\* items; a relation of the full-book parser carries the sentinel 1.0
C14_SimilarityOfSameCandidate ==
  ret.status = "returned" =>
    \A i \in 1..Len(ret.value) :
      IF call.fn = "parseRelationsFromResponse"
      THEN \E j \in 1..Len(call.candidatePassages) :
             /\ call.candidatePassages[j] = ret.value[i].relatedPassageId
             /\ call.similarities[j] = ret.value[i].similarity
      ELSE ret.value[i].similarity = 100

\* C14 happens: the response lists two candidates in the reverse of the
\* candidate order and both relations came back
C14_Witness_ReorderedItems ==
  /\ ret.status = "returned"
  /\ call.fn = "parseRelationsFromResponse"
  /\ call.candidatePassages = <<"e1", "e2">>
  /\ Len(call.response.items) = 2
  /\ call.response.items[1].passage_id = "e2"
  /\ call.response.items[2].passage_id = "e1"
  /\ Len(ret.value) = 2
  /\ ret.value[1].similarity = 60
  /\ ret.value[2].similarity = 80

\* C12: compareAllPassages on a target corpus with zero passages ends with
\* the EmptyCorpus error of indexing the target: it never returns a map,
\* never reaches a classification call, holds no relations, and the handler
\* that receives the error writes nothing to the stored relations
C12_EmptyTargetEndsInEmptyCorpus ==
  /\ [](\A t \in Threads :
         cap[t].pc # "off" /\ getPassages(cap[t].tgt) = << >> =>
           /\ cap[t].pc \in {"begin", "idxSrc", "threw"}
           /\ cap[t].pc = "threw" => cap[t].cause = "index"
           /\ cap[t].allRelations = EmptyMap)
  /\ [][\A t \in Threads :
          /\ cap[t].pc = "threw"
          /\ getPassages(cap[t].tgt) = << >>
          /\ cap'[t].pc = "off"
          => comparisons' = comparisons /\ bookComparisons' = bookComparisons]_vars

\* C12 happens: a compareAllPassages whose source has passages and whose
\* target has none has thrown while indexing the target
C12_Witness_EmptyTargetThrew ==
  \E t \in Threads :
    /\ cap[t].pc = "threw"
    /\ cap[t].cause = "index"
    /\ getPassages(cap[t].src) # << >>
    /\ getPassages(cap[t].tgt) = << >>
    /\ lastIndex = IndexThrew(cap[t].tgt)

\* every retrieval of frame f has settled
RetrievalDone(f) ==
  /\ f.pc \in {"classify", "returned", "threw"}
  /\ f.pending = {}
  /\ DOMAIN f.retrieved = SeqRange(getPassages(f.src))

\* C15: in compareAllPassages a source passage without a candidate at or
\* above the threshold is never handed to classification and has an absent
\* or empty entry; when no passage has a candidate the call returns
\* normally with progress 100 and a map without a non-empty entry
C15_NoCandidateNoClassification ==
  \A t \in Threads :
    RetrievalDone(cap[t]) =>
      /\ \A p \in DOMAIN cap[t].retrieved :
           cap[t].retrieved[p] = << >> =>
             /\ p \notin SeqRange(cap[t].queue)
             /\ p \in DOMAIN cap[t].allRelations => cap[t].allRelations[p] = << >>
      /\ (\A p \in DOMAIN cap[t].retrieved : cap[t].retrieved[p] = << >>) =>
           /\ cap[t].pc = "returned"
           /\ cap[t].progress = 100
           /\ \A p \in DOMAIN cap[t].allRelations : cap[t].allRelations[p] = << >>

\* C15 happens: with the threshold at 0.90, above every similarity of the
\* pair, a compareAllPassages over an indexed target has filtered every
\* candidate away and returned
C15_Witness_UnreachableThreshold ==
  \E t \in Threads :
    /\ RetrievalDone(cap[t])
    /\ cap[t].pc = "returned"
    /\ getBookVectors(cap[t].tgt) # << >>
    /\ lastFilter.by = t
    /\ lastFilter.used = 90
    /\ \A p \in DOMAIN cap[t].retrieved : cap[t].retrieved[p] = << >>
    /\ failures = 0

\* C23: within one compareAllPassages every retrieval has completed before
\* the first classification call is issued, at most one classification call
\* is outstanding (the results stored so far are those of the passages ahead
\* of it), and each result is stored under the id of the source passage
\* whose candidates were sent
C23_RetrieveAllThenClassifyInTurn ==
  \A t \in Threads :
    LET f == cap[t]
    IN /\ f.pc = "retrieve" => f.allRelations = EmptyMap /\ f.queue = << >>
       /\ f.pc = "classify" => RetrievalDone(f) /\ f.queue # << >>
       /\ DOMAIN f.allRelations \cap SeqRange(f.queue) = {}
       /\ Cardinality(SeqRange(f.queue)) = Len(f.queue)
       /\ \A p \in DOMAIN f.allRelations :
            /\ p \in DOMAIN f.retrieved
            /\ \A r \in 1..Len(f.allRelations[p]) :
                 /\ f.allRelations[p][r].focusPassageId = p
                 /\ f.allRelations[p][r].relatedPassageId
                      \in SeqRange(CandidateIds(f.retrieved[p]))

\* C23 happens: both passages of the source have candidates, the first has
\* been classified and stored, and the call for the second is outstanding
C23_Witness_SecondCallOutstanding ==
  \E t \in Threads :
    /\ cap[t].pc = "classify"
    /\ Len(getPassages(cap[t].src)) = 2
    /\ Len(cap[t].queue) = 1
    /\ DOMAIN cap[t].allRelations = SeqRange(getPassages(cap[t].src)) \ SeqRange(cap[t].queue)
    /\ \A p \in DOMAIN cap[t].allRelations : cap[t].allRelations[p] # << >>

\* passage p has a vector in the Vector Index
InIndex(p) == \E i \in 1..Len(passageVectors) : passageVectors[i].passageId = p

\* C24: once a passage's vector is in the index, compareAllPassages never
\* asks the embedding oracle for that passage again; the retrieval of an
\* indexed source passage therefore never settles by a failure of the
\* embedding oracle
C24_IndexedPassageNotEmbeddedAgain ==
  [][\A t \in Threads, p \in PassageIds :
       (/\ cap[t].pc = "retrieve"
        /\ InIndex(p)
        /\ p \in cap[t].pending
        /\ p \notin cap'[t].pending)
       => failures' = failures]_vars

\* C26 (under Spec): whenever no sweep is running, the selector's threshold
\* equals the store's similarityThreshold, initially and after any sequence
\* of interactive changes and completed sweeps
C26_SelectorFollowsStore ==
  pc["auto"] \in {"idle", "done"} => similarityThreshold = storeThreshold

\* C29 (under Spec): a job is set to error only if the comparison in its own
\* direction failed; when the existing-to-new comparison fails after the
\* new-to-existing one succeeded, the error is recorded on the reverse job
\* and the forward job is not marked error
C29_ErrorOnFailedDirection ==
  [][(/\ pc["auto"] = "rev"
      /\ cap["auto"].pc = "threw"
      /\ pc'["auto"] # "rev")
     => LET reverseComparisonKey == cap["auto"].key
            comparisonKey == <<reverseComparisonKey[2], reverseComparisonKey[1]>>
        IN /\ currentComparisons'[reverseComparisonKey].status = "error"
           /\ currentComparisons'[comparisonKey].status # "error"]_vars

\* the sweep is inside its loop over the existing books or past it
InLoop == pc["auto"] \in {"pairBegin", "indexExisting", "fwd", "rev"}

TerminalStatuses == {"complete", "error"}

\* C17: once a job of the automatic sweep has status complete or error, no
\* later event changes its status or progress, over any sequence of sweeps
C17_TerminalJobsAreFinal ==
  [][\A key \in DOMAIN currentComparisons :
       currentComparisons[key].status \in TerminalStatuses =>
         currentComparisons'[key] = currentComparisons[key]]_vars

\* the reference selection: similarities that are defined and at or above
\* the threshold, ranked descending (ties in index order), first topK
ReferenceSelection(queryVector, targetVectors, topK, threshold) ==
  LET qualifying == thresholdPassages(similaritiesOf(queryVector, targetVectors), threshold)
      ranked == CHOOSE r \in SortOutcomes(qualifying) : TRUE
  IN SubSeq(ranked, 1, Min(topK, Len(ranked)))

\* C11: the selected candidates equal the reference selection (rank
\* descending, exclude undefined and below-threshold similarities, keep the
\* first topK), for every index content
C11_SelectionEqualsReference ==
  ret.status = "returned" =>
    ret.value = ReferenceSelection(call.queryVector, getBookVectors(call.targetBookId),
                                   call.topK, similarityThreshold)

(***************************************************************************)
(* Claims checked under SpecFull                                           *)
(***************************************************************************)
\* the token estimate as an integer: total characters divided by 4
estimateTokenCount(sourcePassages, targetPassages) ==
  (SumLengths(sourcePassages) + SumLengths(targetPassages)) \div 4

\* C18: analyzeFullBooks classifies the pair in exactly one oracle call
\* when the integer token estimate is at most 800,000 and takes the
\* chapter-batched mode only when the estimate exceeds 800,000
C18_SingleShotWithinBudget ==
  call.fn = "analyzeFullBooks" /\ ret.status = "returned" =>
    IF estimateTokenCount(call.sourcePassages, call.targetPassages) <= 800000
    THEN ret.value[1].mode = "single" /\ ret.value[1].oracleCalls = 1
    ELSE ret.value[1].mode = "chapters"

\* C19: for a non-empty passage sequence estimateChapters returns at least
\* one segment; the segments are non-empty, contiguous and in passage
\* order, and together hold every passage index exactly once
C19_ChaptersPartitionPassages ==
  call.fn = "estimateChapters" /\ ret.status = "returned" /\ call.passages # << >> =>
    LET chapters == ret.value
        n == Len(call.passages)
    IN /\ Len(chapters) >= 1
       /\ chapters[1].startIdx = 0
       /\ chapters[Len(chapters)].endIdx = n - 1
       /\ \A k \in 1..Len(chapters) : chapters[k].startIdx <= chapters[k].endIdx
       /\ \A k \in 1..(Len(chapters) - 1) :
            chapters[k + 1].startIdx = chapters[k].endIdx + 1
       /\ getPassagesForChapters(call.passages, chapters) = call.passages

\* C19 happens: a sequence that opens with a heading and has a short line
\* further on has been split into several segments
C19_Witness_HeadingAndShortLine ==
  /\ call.fn = "estimateChapters"
  /\ ret.status = "returned"
  /\ Len(call.passages) >= 4
  /\ call.passages[1].heading
  /\ \E i \in 2..(Len(call.passages) - 1) :
       ~call.passages[i].heading /\ call.passages[i].length < ShortPassageLength
  /\ Len(ret.value) >= 2

\* the uniform partition: segments of ceil(n / 10) passages
UniformPartition(n) == UniformChapters(n, CeilDiv(n, 10), 0, << >>)

\* C20: when no passage is a chapter boundary, estimateChapters returns the
\* uniform partition into segments of ceil(n / 10) passages
C20_UniformWithoutBoundaries ==
  /\ call.fn = "estimateChapters"
  /\ ret.status = "returned"
  /\ call.passages # << >>
  /\ \A i \in 0..(Len(call.passages) - 1) : ~isChapterBoundary(call.passages, i)
  => ret.value = UniformPartition(Len(call.passages))


\* first chapters of the groups a book of n chapters is cut into
GroupStarts(n, chaptersPerBatch) ==
  {k * chaptersPerBatch : k \in 0..(CeilDiv(n, chaptersPerBatch) - 1)}

\* C21: a chapter-by-chapter analysis of S source and T target chapters in
\* groups of c asks the oracle about every pair of groups exactly once, that
\* is ceil(S/c) * ceil(T/c) times; a pair the oracle fails on is skipped
\* without ending the analysis, and the returned map holds the relations of
\* every pair that succeeded
C21_EveryPairClassifiedOnce ==
  call.fn = "analyzeBooksByChapters" =>
    /\ ret.status # "threw"
    /\ ret.status = "returned" =>
         LET S == Len(estimateChapters(call.sourcePassages))
             T == Len(estimateChapters(call.targetPassages))
             c == call.chaptersPerBatch
         IN /\ Len(ret.calls) = CeilDiv(S, c) * CeilDiv(T, c)
            /\ \A a \in GroupStarts(S, c), b \in GroupStarts(T, c) :
                 Cardinality({k \in 1..Len(ret.calls) :
                                ret.calls[k].i = a /\ ret.calls[k].j = b}) = 1
            /\ \A k \in 1..Len(ret.calls) :
                 ret.calls[k].ok =>
                   \A r \in 1..Len(ret.calls[k].relations) :
                     LET relation == ret.calls[k].relations[r]
                     IN /\ relation.focusPassageId \in DOMAIN ret.value
                        /\ relation \in SeqRange(ret.value[relation.focusPassageId])

\* an analysis in groups of two whose last group is a single chapter, where
\* the oracle failed on one pair and answered a later one with a relation
C21_Witness_FailureThenRelation ==
  /\ call.fn = "analyzeBooksByChapters"
  /\ ret.status = "returned"
  /\ call.chaptersPerBatch = 2
  /\ Len(estimateChapters(call.sourcePassages)) = 3
  /\ \E k \in 1..Len(ret.calls), m \in 1..Len(ret.calls) :
       /\ k < m
       /\ ~ret.calls[k].ok
       /\ ret.calls[m].ok
       /\ ret.calls[m].relations # << >>


\* C27: every progress value a chapter-by-chapter analysis reports, for any
\* chapter counts and any chaptersPerBatch >= 1, lies in 0..100, and the
\* values of one invocation never decrease
C27_ProgressBoundedAndMonotone ==
  call.fn = "analyzeBooksByChapters" /\ ret.status \in {"awaiting", "returned"} =>
    /\ \A k \in 1..Len(ret.progress) : ret.progress[k] \in 0..100
    /\ \A k \in 1..(Len(ret.progress) - 1) : ret.progress[k] <= ret.progress[k + 1]

\* C28 (under SpecParse): the relations parsed for one focus passage hold at
\* most one relation per candidate, hence no more than there are candidates,
\* also when the response repeats a passage_id
C28_OneRelationPerCandidate ==
  (call.fn = "parseRelationsFromResponse" /\ ret.status = "returned") =>
    /\ Len(ret.value) <= Len(call.candidatePassages)
    /\ \A i, j \in 1..Len(ret.value) :
         i # j => ret.value[i].relatedPassageId # ret.value[j].relatedPassageId

(***************************************************************************)
(* Claims checked under SpecUnanswered                                     *)
(***************************************************************************)
\* C22: every oracle call is bounded by a timeout, so an analysis whose
\* oracle never responds still returns: the request it waits on is aborted
\* and counted as a failure of that pair only
C22_UnansweredCallIsAborted ==
  (call.fn = "analyzeBooksByChapters") ~> (ret.status = "returned")


(***************************************************************************)
(* Claims checked under SpecStore                                          *)
(***************************************************************************)
\* C25: storing the results of one comparison never discards the stored
\* relations of the same focus passage toward a different target: a stored
\* relation whose related passage is not of the corpus just compared is
\* still stored afterwards
C25_OtherTargetsRelationsKept ==
  (call.fn = "addBulkComparisons" /\ ret.status = "returned") =>
    \A p \in DOMAIN call.stored :
      \A r \in 1..Len(call.stored[p]) :
        call.stored[p][r].relatedPassageId \notin SeqRange(call.targetPassages) =>
          /\ p \in DOMAIN ret.value
          /\ call.stored[p][r] \in SeqRange(ret.value[p])

\* C30: indexing corpus B never removes or replaces a vector of corpus A:
\* after indexBook(B), getBookVectors(A) is what it was, also when A and B
\* hold passages with the same passage id
C30_IndexingKeepsOtherCorpus ==
  (call.fn = "indexBook" /\ ret.status = "returned") =>
    getBookVectorsIn(ret.value, "N") = getBookVectorsIn(call.index, "N")

====
